---- MODULE Spec2Model ----
(***************************************************************************)
(* Model of oko-glitch.go: one upstream fetch, the JSON -> RSS mapping,    *)
(* and the two goroutines (HTTP server, countdown to os.Exit) that main    *)
(* starts once the feed text is stored in the global `feed`.               *)
(*                                                                         *)
(* Text is a sequence of strings: a dynamic value is spelled character by  *)
(* character (one-character strings); fixed markup and month names are     *)
(* single multi-character tokens.  Concatenation is \o.                    *)
(***************************************************************************)
EXTENDS Integers, Sequences, FiniteSets, TLC

\* ------------------------------------------------------------------ bounds
\* Longest upstream node list explored.
MaxNodes == 2
\* Most requests being handled at the same time.
MaxInflight == 1
\* Largest configured interval (seconds) explored.
MaxInterval == 1

\* ------------------------------------------------------- program constants
\* http.StatusOK
StatusOK == 200
\* exit status of os.Exit(0) and of main returning
ExitOk == 0
\* exit status of a goroutine dying from an unrecovered panic
ExitPanic == 2
\* exitCode while the process is still running
NoExit == -1
\* sync.WaitGroup counter set by wg.Add(2)
WgAdd == 2

\* -------------------------------------------------------------- characters
DigitChars == <<"0", "1", "2", "3", "4", "5", "6", "7", "8", "9">>

IsDigitChar(c) == \E i \in 1..10 : DigitChars[i] = c

DigitVal(c) == (CHOOSE i \in 1..10 : DigitChars[i] = c) - 1

\* value has a digit at (1-based) position i
isDigit(value, i) == i <= Len(value) /\ IsDigitChar(value[i])

\* two decimal digits at positions i, i+1
Num2(value, i) == 10 * DigitVal(value[i]) + DigitVal(value[i + 1])

\* n >= 0 written with exactly two / four digits (zero padded)
Pad2(n) == <<DigitChars[((n \div 10) % 10) + 1], DigitChars[(n % 10) + 1]>>

Pad4(n) == Pad2(n \div 100) \o Pad2(n % 100)

\* ---------------------------------------------------------------- time.Time
MonthNames == <<"Jan", "Feb", "Mar", "Apr", "May", "Jun",
                "Jul", "Aug", "Sep", "Oct", "Nov", "Dec">>

isLeap(year) == year % 4 = 0 /\ (year % 100 /= 0 \/ year % 400 = 0)

daysIn(month, year) ==
    IF month = 2 THEN (IF isLeap(year) THEN 29 ELSE 28)
    ELSE IF month \in {4, 6, 9, 11} THEN 30 ELSE 31

\* The zero time.Time: January 1, year 1, 00:00:00 UTC.
ZeroTime == [year |-> 1, month |-> 1, day |-> 1, hour |-> 0, min |-> 0, offset |-> 0]

\* time.ParseInLocation("2006-01-02T15:04:05", value, UTC).  Result
\* [ok, t]: on any error Go returns the zero Time together with the error.
\* Layout pieces: "2006" four digits; "01", "02", "04", "05" exactly two
\* digits; "15" one or two digits; after the seconds a fraction
\* ".digits" is accepted although the layout has none; anything left over
\* is an "extra text" error; the day is range-checked against the month.
ParseInLocation(value) ==
    LET bad == [ok |-> FALSE, t |-> ZeroTime]
        dateOk == /\ Len(value) >= 11
                  /\ \A i \in {1, 2, 3, 4, 6, 7, 9, 10} : isDigit(value, i)
                  /\ value[5] = "-" /\ value[8] = "-" /\ value[11] = "T"
    IN  IF ~dateOk THEN bad
        ELSE
        LET year  == 100 * Num2(value, 1) + Num2(value, 3)
            month == Num2(value, 6)
            day   == Num2(value, 9)
            \* getnum(value, false): one digit, or two when the next is a digit
            hourOk == isDigit(value, 12)
            hour2  == isDigit(value, 13)
            hour   == IF hour2 THEN Num2(value, 12) ELSE DigitVal(value[12])
            p      == IF hour2 THEN 14 ELSE 13       \* position of the first ":"
            timeOk == /\ hourOk
                      /\ Len(value) >= p + 5
                      /\ value[p] = ":" /\ isDigit(value, p + 1) /\ isDigit(value, p + 2)
                      /\ value[p + 3] = ":" /\ isDigit(value, p + 4) /\ isDigit(value, p + 5)
        IN  IF ~timeOk THEN bad
            ELSE
            LET min  == Num2(value, p + 1)
                sec  == Num2(value, p + 4)
                rest == SubSeq(value, p + 6, Len(value))
                \* fractional second in the input but not in the layout
                frac == Len(rest) >= 2 /\ rest[1] = "." /\ isDigit(rest, 2)
                restOk == IF frac THEN \A i \in 2..Len(rest) : isDigit(rest, i)
                          ELSE rest = <<>>
                rangeOk == /\ month \in 1..12
                           /\ hour < 24 /\ min < 60 /\ sec < 60
                           /\ day >= 1 /\ day <= daysIn(month, year)
            IN  IF restOk /\ rangeOk
                THEN [ok |-> TRUE,
                      t  |-> [year |-> year, month |-> month, day |-> day,
                              hour |-> hour, min |-> min, offset |-> 0]]
                ELSE bad

\* Time.Format("02 Jan 2006 15:04 -0700"); offset is the zone offset in
\* minutes east of UTC.
Format(t) ==
    LET zone == IF t.offset < 0 THEN -t.offset ELSE t.offset
    IN  Pad2(t.day) \o <<" ", MonthNames[t.month], " ">> \o Pad4(t.year)
        \o <<" ">> \o Pad2(t.hour) \o <<":">> \o Pad2(t.min)
        \o <<" ", IF t.offset < 0 THEN "-" ELSE "+">>
        \o Pad2(zone \div 60) \o Pad2(zone % 60)

\* ------------------------------------------------------------------- inputs
\* Go string literals of the program.
BaseUrl == <<"h", "t", "t", "p", "s", ":", "/", "/", "o", "k", "o", ".", "p", "r", "e", "s", "s", "/">>

NO_CONFIG == "NO_CONFIG"

MissingConfigMessage == "Please specify config path!"

ContentTypeXml == "application/xml"

ImageJpeg == "image/jpeg"

ProxyPrefix == <<"h", "t", "t", "p", "s", ":", "/", "/", "p", "r", "o", "x", "y", "/">>

MkNode(id, title, published, slug, url) ==
    [ID |-> id, Title |-> title, Published |-> published,
     SeoFields |-> [Slug |-> slug], Image |-> [Url |-> url]]

\* the record of the end-to-end scenario: a well-formed timestamp
NodeGood ==
    MkNode(<<"4", "2">>, <<"T", "e", "s", "t">>,
           <<"2", "0", "2", "3", "-", "0", "5", "-", "0", "1", "T", "1", "0", ":", "0", "0", ":", "0", "0">>,
           <<"t", "e", "s", "t", "-", "a", "r", "t", "i", "c", "l", "e">>,
           <<"/", "i", "m", "g", ".", "j", "p", "g">>)

\* a space instead of the "T": does not match the layout
NodeBadLayout ==
    MkNode(<<"7">>, <<"A", "&", "<", "B">>,
           <<"2", "0", "2", "3", "-", "0", "5", "-", "0", "1", " ", "1", "0", ":", "0", "0", ":", "0", "0">>,
           <<"a">>, <<"i", ".", "p", "n", "g">>)

\* one-digit hour and a fractional second: accepted by the Go parser
NodeLoose ==
    MkNode(<<"9">>, <<"\"", "q", "\"">>,
           <<"2", "0", "2", "3", "-", "1", "2", "-", "3", "1", "T", "9", ":", "0", "5", ":", "0", "7", ".", "5">>,
           <<"/", "x">>, <<"h", "t", "t", "p", ":", "/", "/", "i", "/", "p">>)

NodeSamples == {NodeGood, NodeBadLayout, NodeLoose}

SeqsUpTo(S, n) == UNION {[1..k -> S] : k \in 0..n}

\* what the upstream request can produce: http.Get error, a status, and for
\* status 200 either a Decode error or the decoded node list
Responses ==
    {[err |-> TRUE, status |-> 0, decodeErr |-> FALSE, nodes |-> <<>>]}
    \cup {[err |-> FALSE, status |-> s, decodeErr |-> FALSE, nodes |-> <<>>] : s \in {404, 500}}
    \cup {[err |-> FALSE, status |-> StatusOK, decodeErr |-> TRUE, nodes |-> <<>>]}
    \cup {[err |-> FALSE, status |-> StatusOK, decodeErr |-> FALSE, nodes |-> ns] :
            ns \in SeqsUpTo(NodeSamples, MaxNodes)}

NoResponse == [err |-> FALSE, status |-> 0, decodeErr |-> FALSE, nodes |-> <<>>]

\* decoded config files
Configs ==
    {[Url |-> "https://api", ThumbnailCompression |-> tc, Interval |-> iv] :
        tc \in {ProxyPrefix, <<>>}, iv \in 0..MaxInterval}

\* the zero Config the global starts with
ZeroConfig == [Url |-> "", ThumbnailCompression |-> <<>>, Interval |-> 0]

\* wall-clock readings of time.Now() (local zone)
NowSamples ==
    {[year |-> 2023, month |-> 5, day |-> 2, hour |-> 8, min |-> 30, offset |-> 0],
     [year |-> 2024, month |-> 1, day |-> 9, hour |-> 23, min |-> 5, offset |-> 120]}

Methods == {"GET", "POST"}

Paths == {"/", "/feed.xml"}

Requests == [method : Methods, path : Paths]

NoRequest == [method |-> "", path |-> ""]

\* -------------------------------------------------------------------- state
VARIABLES
    configPath,   \* main: value of the -c / --config flag
    port,         \* global port
    config,       \* global config
    feed,         \* global feed ("" until main assigns it)
    mainPc,       \* main's position
    fileOpened,   \* os.Open(configPath) was called
    fetchCount,   \* number of http.Get calls issued
    feedWrites,   \* number of assignments to the global feed
    httpResponse, \* outcome of the upstream request
    rss,          \* OkoPressRss: the RssFeed document it marshalled
    now,          \* OkoPressRss: the time.Now() it read
    wgCount,      \* main: counter of the sync.WaitGroup
    cronPc,       \* goroutine cron: position
    remaining,    \* seconds left of cron's time.Sleep
    servePc,      \* goroutine serveHttp: position
    listenerBound,\* http.ListenAndServe holds the listening socket
    inflight,     \* requests accepted whose handler has not run yet
    responses,    \* every distinct (status, Content-Type, body) written so far
    lastRequest,  \* the request the handler served last
    procState,    \* "running" or "exited"
    exitCode,     \* process exit status (NoExit while running)
    stdout        \* what main printed with fmt.Printf

vars == <<configPath, port, config, feed, mainPc, fileOpened, fetchCount,
          feedWrites, httpResponse, rss, now, wgCount, cronPc, remaining,
          servePc, listenerBound, inflight, responses, lastRequest, procState,
          exitCode, stdout>>

mainVars == <<configPath, port, config, feed, mainPc, fileOpened, fetchCount,
              feedWrites, httpResponse, rss, now, stdout>>

cronVars == <<cronPc, remaining>>

serveVars == <<servePc, listenerBound, inflight, responses, lastRequest>>

\* --------------------------------------------------------- Record Mapper
\* Variant: the two URL parts are joined like path segments, a doubled "/"
\* at the seam collapsed.
JoinUrl(a, b) ==
    IF a /= <<>> /\ b /= <<>> /\ a[Len(a)] = "/" /\ b[1] = "/" THEN a \o Tail(b) ELSE a \o b

JsonToRssItemJoined(node) ==
    [Title |-> node.Title,
     Link |-> JoinUrl(BaseUrl, node.SeoFields.Slug),
     Guid |-> [Content |-> node.ID, IsPermaLink |-> FALSE],
     PubDate |-> Format(ParseInLocation(node.Published).t),
     Enclosure |-> [Url |-> JoinUrl(config.ThumbnailCompression, node.Image.Url),
                    Length |-> 0, Type |-> ImageJpeg]]

\* func JsonToRssItem(node Node) RssItem.  The parse error is discarded
\* (okoTimeFormat, _ := ...), so a failed parse formats the zero Time.
JsonToRssItem(node) ==
    LET okoTimeFormat == ParseInLocation(node.Published).t
        rssTimeFormat == Format(okoTimeFormat)
        link == BaseUrl \o node.SeoFields.Slug
        imageUrl == config.ThumbnailCompression \o node.Image.Url
    IN  [Title |-> node.Title,
         Link |-> link,
         Guid |-> [Content |-> node.ID, IsPermaLink |-> FALSE],
         PubDate |-> rssTimeFormat,
         Enclosure |-> [Url |-> imageUrl, Length |-> 0, Type |-> ImageJpeg]]

\* ----------------------------------------------------------- Feed Builder
\* xml.EscapeText on one character
EscapeChar(c) ==
    CASE c = "&"  -> "&amp;"
      [] c = "<"  -> "&lt;"
      [] c = ">"  -> "&gt;"
      [] c = "'"  -> "&#39;"
      [] c = "\"" -> "&#34;"
      [] c = "\t" -> "&#x9;"
      [] c = "\n" -> "&#xA;"
      [] c = "\r" -> "&#xD;"
      [] OTHER    -> c

EscapeText(s) == [i \in 1..Len(s) |-> EscapeChar(s[i])]

Elem(indent, name, text) ==
    <<indent, "<" \o name \o ">">> \o EscapeText(text) \o <<"</" \o name \o ">", "\n">>

\* one <item> of the channel, fields in struct order
MarshalItem(item) ==
    <<"  ", "<item>", "\n">>
    \o Elem("   ", "title", item.Title)
    \o Elem("   ", "link", item.Link)
    \o <<"   ", "<guid isPermaLink=\"",
         IF item.Guid.IsPermaLink THEN "true" ELSE "false", "\">">>
    \o EscapeText(item.Guid.Content) \o <<"</guid>", "\n">>
    \o Elem("   ", "pubDate", item.PubDate)
    \o <<"   ", "<enclosure url=\"">> \o EscapeText(item.Enclosure.Url)
    \o <<"\" length=\"">> \o (IF item.Enclosure.Length = 0 THEN <<"0">> ELSE <<"?">>)
    \o <<"\" type=\"", item.Enclosure.Type, "\"></enclosure>", "\n">>
    \o <<"  ", "</item>", "\n">>

RECURSIVE MarshalItems(_)
MarshalItems(items) ==
    IF items = <<>> THEN <<>>
    ELSE MarshalItem(Head(items)) \o MarshalItems(Tail(items))

\* xml.MarshalIndent(rss, "", " ")
MarshalIndent(doc) ==
    <<"<rss version=\"">> \o EscapeText(doc.Version)
    \o <<"\" xmlns:atom=\"">> \o EscapeText(doc.Atom) \o <<"\">", "\n">>
    \o <<" ", "<channel>", "\n">>
    \o <<"  ", "<atom:link rel=\"">> \o EscapeText(doc.Channel.AtomLink.Rel)
    \o <<"\" href=\"">> \o EscapeText(doc.Channel.AtomLink.Href)
    \o <<"\"></atom:link>", "\n">>
    \o Elem("  ", "title", doc.Channel.Title)
    \o Elem("  ", "link", doc.Channel.Link)
    \o Elem("  ", "description", doc.Channel.Desc)
    \o MarshalItems(doc.Channel.Item)
    \o <<" ", "</channel>", "\n", "</rss>">>

ChannelLink == <<"https://oko.press">>

\* channel.Desc; the literal's Polish letters are written here without their
\* diacritics (it contains no character that EscapeText changes)
ChannelDesc ==
    <<"OKO.press to portal informacyjny, ktory publikuje najnowsze wiadomosci z roznych dziedzin: polityki, gospodarki, sportu, kultury, nauki i nauki. Znajdziesz tu takze wywiady, analizy, sondaze, podcasty i multimedia.">>

\* the zero RssFeed
ZeroRss ==
    [Version |-> <<>>, Atom |-> <<>>,
     Channel |-> [AtomLink |-> [Rel |-> <<>>, Href |-> <<>>],
                  Title |-> <<>>, Link |-> <<>>, Desc |-> <<>>, Item |-> <<>>]]

\* Variant: the loop bound is off by one (i < len(nodes) - 1).
RECURSIVE LoopOverNodesSkipLast(_, _, _)
LoopOverNodesSkipLast(nodes, i, rssItems) ==
    IF i < Len(nodes) - 1
    THEN LoopOverNodesSkipLast(nodes, i + 1, Append(rssItems, JsonToRssItem(nodes[i + 1])))
    ELSE rssItems

\* for i := 0; i < len(nodes); i++ { rssItems = append(rssItems, JsonToRssItem(nodes[i])) }
\* (Go's nodes[i] is nodes[i + 1] here)
RECURSIVE LoopOverNodes(_, _, _)
LoopOverNodes(nodes, i, rssItems) ==
    IF i < Len(nodes)
    THEN LoopOverNodes(nodes, i + 1, Append(rssItems, JsonToRssItem(nodes[i + 1])))
    ELSE rssItems

\* OkoPressRss, "Create RSS feed and add values" up to channel.Item = rssItems
BuildRss(nodes) ==
    [Version |-> <<"2.0">>,
     Atom |-> <<"http://www.w3.org/2005/Atom">>,
     Channel |-> [AtomLink |-> [Rel |-> <<"self">>, Href |-> ChannelLink],
                  Title |-> <<"OKO.press">>,
                  Link |-> ChannelLink,
                  Desc |-> ChannelDesc,
                  Item |-> LoopOverNodes(nodes, 0, <<>>)]]

\* feed := "<!-- Last updated: " + now + " -->\n" + xmlText
FeedText(doc, t) ==
    <<"<!-- Last updated: ">> \o Format(t) \o <<" -->\n">> \o MarshalIndent(doc)

\* ------------------------------------------------------------ process exit
Running == procState = "running"

\* ---------------------------------------------------------------------- Init
Init ==
    /\ configPath \in {NO_CONFIG, "config.json"}
    /\ port = "8000"
    /\ config = ZeroConfig
    /\ feed = <<>>
    /\ mainPc = "checkConfigPath"
    /\ fileOpened = FALSE
    /\ fetchCount = 0
    /\ feedWrites = 0
    /\ httpResponse = NoResponse
    /\ rss = ZeroRss
    /\ now = ZeroTime
    /\ wgCount = 0
    /\ cronPc = "idle"
    /\ remaining = 0
    /\ servePc = "idle"
    /\ listenerBound = FALSE
    /\ inflight = {}
    /\ responses = {}
    /\ lastRequest = NoRequest
    /\ procState = "running"
    /\ exitCode = NoExit
    /\ stdout = <<>>

\* ---------------------------------------------------------------------- main
\* Variant: the message is printed but the return is missing.
MainCheckConfigPathNoReturn ==
    /\ Running /\ mainPc = "checkConfigPath"
    /\ stdout' = IF configPath = NO_CONFIG THEN Append(stdout, MissingConfigMessage)
                 ELSE stdout
    /\ mainPc' = "openConfig"
    /\ UNCHANGED <<configPath, port, config, feed, fileOpened, fetchCount, feedWrites,
                   httpResponse, rss, now, wgCount, procState, exitCode>>
    /\ UNCHANGED <<cronVars, serveVars>>

\* if configPath == "NO_CONFIG" { fmt.Printf(...); return }
MainCheckConfigPath ==
    /\ Running /\ mainPc = "checkConfigPath"
    /\ IF configPath = NO_CONFIG
       THEN /\ stdout' = Append(stdout, MissingConfigMessage)
            /\ mainPc' = "returned"
            /\ procState' = "exited"
            /\ exitCode' = ExitOk
       ELSE /\ mainPc' = "openConfig"
            /\ UNCHANGED <<stdout, procState, exitCode>>
    /\ UNCHANGED <<configPath, port, config, feed, fileOpened, fetchCount, feedWrites,
                   httpResponse, rss, now, wgCount>>
    /\ UNCHANGED <<cronVars, serveVars>>

\* file, err := os.Open(configPath); if err != nil { log.Panic }
MainOpenConfig ==
    /\ Running /\ mainPc = "openConfig"
    /\ fileOpened' = TRUE
    /\ \E err \in BOOLEAN :
          IF err
          THEN mainPc' = "panicked" /\ procState' = "exited" /\ exitCode' = ExitPanic
          ELSE mainPc' = "parseConfig" /\ UNCHANGED <<procState, exitCode>>
    /\ UNCHANGED <<configPath, port, config, feed, fetchCount, feedWrites,
                   httpResponse, rss, now, stdout, wgCount>>
    /\ UNCHANGED <<cronVars, serveVars>>

\* err = configParser.Decode(&config); if err != nil { log.Panic }
MainParseConfig ==
    /\ Running /\ mainPc = "parseConfig"
    /\ \/ /\ mainPc' = "panicked" /\ procState' = "exited" /\ exitCode' = ExitPanic
          /\ UNCHANGED config
       \/ /\ \E c \in Configs : config' = c
          /\ mainPc' = "okoPressRss"
          /\ UNCHANGED <<procState, exitCode>>
    /\ UNCHANGED <<configPath, port, feed, fileOpened, fetchCount, feedWrites,
                   httpResponse, rss, now, stdout, wgCount>>
    /\ UNCHANGED <<cronVars, serveVars>>

\* Variant: "feed := OkoPressRss()" declares a local and leaves the global
\* untouched.
MainOkoPressRssShadowed ==
    /\ Running /\ mainPc = "okoPressRss"
    /\ fetchCount' = fetchCount + 1
    /\ \E resp \in Responses, t \in NowSamples :
          /\ httpResponse' = resp
          /\ IF resp.err \/ resp.status /= StatusOK \/ resp.decodeErr
             THEN /\ mainPc' = "panicked" /\ procState' = "exited"
                  /\ exitCode' = ExitPanic
                  /\ UNCHANGED <<rss, now>>
             ELSE /\ rss' = BuildRss(resp.nodes)
                  /\ now' = t
                  /\ mainPc' = "goCron"
                  /\ UNCHANGED <<procState, exitCode>>
    /\ UNCHANGED <<feed, feedWrites>>
    /\ UNCHANGED <<configPath, port, config, fileOpened, stdout, wgCount>>
    /\ UNCHANGED <<cronVars, serveVars>>

\* Variant: the response status is not checked.
MainOkoPressRssNoStatusCheck ==
    /\ Running /\ mainPc = "okoPressRss"
    /\ fetchCount' = fetchCount + 1
    /\ \E resp \in Responses, t \in NowSamples :
          /\ httpResponse' = resp
          /\ IF resp.err \/ resp.decodeErr
             THEN /\ mainPc' = "panicked" /\ procState' = "exited"
                  /\ exitCode' = ExitPanic
                  /\ UNCHANGED <<feed, feedWrites, rss, now>>
             ELSE /\ rss' = BuildRss(resp.nodes)
                  /\ now' = t
                  /\ feed' = FeedText(rss', t)
                  /\ feedWrites' = feedWrites + 1
                  /\ mainPc' = "goCron"
                  /\ UNCHANGED <<procState, exitCode>>
    /\ UNCHANGED <<configPath, port, config, fileOpened, stdout, wgCount>>
    /\ UNCHANGED <<cronVars, serveVars>>

\* feed = OkoPressRss(): the upstream request, the three fatal checks, the
\* mapping loop, the marshalling, and the assignment to the global.
MainOkoPressRss ==
    /\ Running /\ mainPc = "okoPressRss"
    /\ fetchCount' = fetchCount + 1
    /\ \E resp \in Responses, t \in NowSamples :
          /\ httpResponse' = resp
          /\ IF resp.err \/ resp.status /= StatusOK \/ resp.decodeErr
             THEN /\ mainPc' = "panicked" /\ procState' = "exited"
                  /\ exitCode' = ExitPanic
                  /\ UNCHANGED <<feed, feedWrites, rss, now>>
             ELSE /\ rss' = BuildRss(resp.nodes)
                  /\ now' = t
                  /\ feed' = FeedText(rss', t)
                  /\ feedWrites' = feedWrites + 1
                  /\ mainPc' = "goCron"
                  /\ UNCHANGED <<procState, exitCode>>
    /\ UNCHANGED <<configPath, port, config, fileOpened, stdout, wgCount>>
    /\ UNCHANGED <<cronVars, serveVars>>

\* var wg sync.WaitGroup; wg.Add(2); go cron(&wg)
MainGoCron ==
    /\ Running /\ mainPc = "goCron"
    /\ wgCount' = wgCount + WgAdd
    /\ cronPc' = "start"
    /\ mainPc' = "goServeHttp"
    /\ UNCHANGED <<configPath, port, config, feed, fileOpened, fetchCount, feedWrites,
                   httpResponse, rss, now, stdout, remaining, procState, exitCode>>
    /\ UNCHANGED serveVars

\* go serveHttp(&wg); main then blocks in wg.Wait() for as long as wgCount > 0
MainGoServeHttp ==
    /\ Running /\ mainPc = "goServeHttp"
    /\ servePc' = "start"
    /\ mainPc' = "wait"
    /\ UNCHANGED <<configPath, port, config, feed, fileOpened, fetchCount, feedWrites,
                   httpResponse, rss, now, stdout, wgCount, procState, exitCode,
                   listenerBound, inflight, responses, lastRequest>>
    /\ UNCHANGED cronVars

\* ---------------------------------------------------------------------- cron
\* log.Printf(...); time.Sleep(config.Interval * time.Second) begins
CronSleep ==
    /\ Running /\ cronPc = "start"
    /\ cronPc' = "sleeping"
    /\ remaining' = IF config.Interval > 0 THEN config.Interval ELSE 0
    /\ UNCHANGED <<mainVars, wgCount, serveVars, procState, exitCode>>

\* one second of the sleep passes
Tick ==
    /\ Running /\ cronPc = "sleeping" /\ remaining > 0
    /\ remaining' = remaining - 1
    /\ UNCHANGED <<mainVars, wgCount, cronPc, serveVars, procState, exitCode>>

\* time.Sleep returns; log.Println("Exiting")
CronWake ==
    /\ Running /\ cronPc = "sleeping" /\ remaining = 0
    /\ cronPc' = "elapsed"
    /\ UNCHANGED <<mainVars, wgCount, remaining, serveVars, procState, exitCode>>

\* Variant: the exit waits until no request is being handled.
CronExitAfterDrain ==
    /\ Running /\ cronPc = "elapsed"
    /\ inflight = {}
    /\ cronPc' = "exited"
    /\ procState' = "exited"
    /\ exitCode' = ExitOk
    /\ UNCHANGED <<mainVars, wgCount, remaining, serveVars>>

\* os.Exit(0): the process ends at once; deferred wg.Done() is not run
CronExit ==
    /\ Running /\ cronPc = "elapsed"
    /\ cronPc' = "exited"
    /\ procState' = "exited"
    /\ exitCode' = ExitOk
    /\ UNCHANGED <<mainVars, wgCount, remaining, serveVars>>

\* ----------------------------------------------------------------- serveHttp
\* log.Println("Starting HTTP server"); http.HandleFunc("/", handler)
ServeHandleFunc ==
    /\ Running /\ servePc = "start"
    /\ servePc' = "registered"
    /\ UNCHANGED <<mainVars, wgCount, cronVars, listenerBound, inflight, responses,
                   lastRequest, procState, exitCode>>

\* err := http.ListenAndServe(":" + port, nil): binds and serves, or returns
\* the bind error
ServeListen ==
    /\ Running /\ servePc = "registered"
    /\ \E bindErr \in BOOLEAN :
          IF bindErr
          THEN servePc' = "failed" /\ UNCHANGED listenerBound
          ELSE servePc' = "listening" /\ listenerBound' = TRUE
    /\ UNCHANGED <<mainVars, wgCount, cronVars, inflight, responses, lastRequest,
                   procState, exitCode>>

\* Variant: the error is logged and serveHttp returns.
ServeLogAndReturn ==
    /\ Running /\ servePc = "failed"
    /\ wgCount' = wgCount - 1
    /\ servePc' = "returned"
    /\ UNCHANGED <<mainVars, cronVars, listenerBound, inflight, responses, lastRequest,
                   procState, exitCode>>

\* if err != nil { log.Panic(...) }: the deferred wg.Done() runs, then the
\* unrecovered panic kills the process
ServePanic ==
    /\ Running /\ servePc = "failed"
    /\ wgCount' = wgCount - 1
    /\ servePc' = "panicked"
    /\ procState' = "exited"
    /\ exitCode' = ExitPanic
    /\ UNCHANGED <<mainVars, cronVars, listenerBound, inflight, responses, lastRequest>>

\* the server accepts a request and hands it to the handler registered at "/"
RequestArrive ==
    /\ Running /\ servePc = "listening"
    /\ Cardinality(inflight) < MaxInflight
    /\ \E r \in Requests \ inflight : inflight' = inflight \cup {r}
    /\ UNCHANGED <<mainVars, wgCount, cronVars, servePc, listenerBound, responses,
                   lastRequest, procState, exitCode>>

\* Variant: only the exact path "/" is served, anything else is a 404.
HandlerRootOnly(r) ==
    IF r.path = "/"
    THEN [status |-> StatusOK, contentType |-> ContentTypeXml, body |-> Append(feed, "\n")]
    ELSE [status |-> 404, contentType |-> "text/plain; charset=utf-8",
          body |-> <<"404 page not found", "\n">>]

\* func(w, r) { w.Header().Set("Content-Type", "application/xml"); fmt.Fprintln(w, feed) }
\* No WriteHeader call: the status is the default 200.  Fprintln appends "\n".
Handler(r) ==
    [status |-> StatusOK,
     contentType |-> ContentTypeXml,
     body |-> Append(feed, "\n")]

\* Variant: the handler rebuilds the feed text on every request.
HandleRequestRefresh ==
    /\ Running /\ servePc = "listening"
    /\ \E r \in inflight, t \in NowSamples :
          /\ feed' = FeedText(rss, t)
          /\ now' = t
          /\ responses' = responses \cup
                 {[status |-> StatusOK, contentType |-> ContentTypeXml,
                   body |-> Append(feed', "\n")]}
          /\ lastRequest' = r
          /\ inflight' = inflight \ {r}
    /\ feedWrites' = feedWrites + 1
    /\ UNCHANGED <<configPath, port, config, mainPc, fileOpened, fetchCount,
                   httpResponse, rss, stdout>>
    /\ UNCHANGED <<wgCount, cronVars, servePc, listenerBound, procState, exitCode>>

HandleRequest ==
    /\ Running /\ servePc = "listening"
    /\ \E r \in inflight :
          /\ responses' = responses \cup {Handler(r)}
          /\ lastRequest' = r
          /\ inflight' = inflight \ {r}
    /\ UNCHANGED <<mainVars, wgCount, cronVars, servePc, listenerBound, procState, exitCode>>

\* ---------------------------------------------------------------------- Next
Next ==
    \/ MainCheckConfigPath
    \/ MainOpenConfig
    \/ MainParseConfig
    \/ MainOkoPressRss
    \/ MainGoCron
    \/ MainGoServeHttp
    \/ CronSleep
    \/ Tick
    \/ CronWake
    \/ CronExit
    \/ ServeHandleFunc
    \/ ServeListen
    \/ ServePanic
    \/ RequestArrive
    \/ HandleRequest

Spec == Init /\ [][Next]_vars

\* The Go scheduler runs every runnable goroutine eventually and a sleep of
\* finite length ends; requests and bind errors are up to the environment.
FairSpec ==
    /\ Spec
    /\ WF_vars(CronSleep) /\ WF_vars(Tick) /\ WF_vars(CronWake) /\ WF_vars(CronExit)
    /\ WF_vars(ServeHandleFunc) /\ WF_vars(ServeListen) /\ WF_vars(ServePanic)
    /\ WF_vars(HandleRequest)

\* ------------------------------------------------------------ shared notions
\* either goroutine has been started
TasksStarted == cronPc /= "idle" \/ servePc /= "idle"

\* the upstream request ended in one of the three fatal ways
FetchFailed ==
    /\ fetchCount > 0
    /\ httpResponse.err \/ httpResponse.status /= StatusOK \/ httpResponse.decodeErr

\* the text a complete build produces from the decoded nodes and the clock
CompleteFeed == FeedText(BuildRss(httpResponse.nodes), now)

\* ------------------------------------------------------------------------ C1
\* C1: whenever the serving task or the countdown task has been started, the
\* global feed already holds the complete feed text (written once, by main,
\* not empty, ending in the closing rss tag), and every response written so
\* far carries that complete text.
C1_FeedReadyBeforeTasks ==
    TasksStarted =>
        LET complete == CompleteFeed
        IN  /\ feedWrites = 1
            /\ feed /= <<>>
            /\ feed = complete
            /\ feed[Len(feed)] = "</rss>"
            /\ mainPc \in {"goServeHttp", "wait"}
            /\ \A resp \in responses :
                  SubSeq(resp.body, 1, Len(resp.body) - 1) = complete

\* a request has been answered while both tasks run
C1_Witness ==
    /\ cronPc = "sleeping" /\ servePc = "listening"
    /\ responses /= {} /\ Len(httpResponse.nodes) = MaxNodes

\* ------------------------------------------------------------------------ C2
\* C2: after a network error, a non-200 status or a JSON decode error the
\* process has ended abnormally and neither task was started: no listener,
\* no response, and the global feed is still empty.
C2_FetchFailureIsFatal ==
    FetchFailed =>
        /\ procState = "exited" /\ exitCode = ExitPanic
        /\ mainPc = "panicked"
        /\ ~TasksStarted
        /\ wgCount = 0
        /\ ~listenerBound
        /\ inflight = {} /\ responses = {}
        /\ feed = <<>> /\ feedWrites = 0

\* the upstream answered with a non-success status
C2_Witness ==
    /\ fetchCount = 1 /\ ~httpResponse.err /\ httpResponse.status = 500
    /\ procState = "exited"

\* ------------------------------------------------------------------------ C4
\* C4: with no config path on the command line nothing is opened, fetched or
\* started, and once the check has run the process has printed the message
\* and ended with exit status 0.
C4_MissingConfigPath ==
    configPath = NO_CONFIG =>
        /\ ~fileOpened
        /\ fetchCount = 0
        /\ ~TasksStarted
        /\ ~listenerBound
        /\ feed = <<>>
        /\ mainPc \in {"checkConfigPath", "returned"}
        /\ mainPc = "returned" =>
              /\ procState = "exited" /\ exitCode = ExitOk
              /\ stdout = <<MissingConfigMessage>>

\* main returned after printing the message
C4_Witness ==
    /\ configPath = NO_CONFIG /\ procState = "exited" /\ stdout /= <<>>

\* ------------------------------------------------------------------------ C7
\* C7: if some upstream record has a publish timestamp the parser rejects,
\* the mapper fails: no feed is built from that payload, so no item with the
\* zero date is placed in the feed or served.
C7_TimestampParseErrorIsFatal ==
    (\E i \in 1..Len(httpResponse.nodes) :
        ~ParseInLocation(httpResponse.nodes[i].Published).ok)
    => /\ rss.Channel.Item = <<>>
       /\ feed = <<>>
       /\ responses = {}

\* ------------------------------------------------------------------------ C8
\* C8: once the feed is built, the channel has exactly one item per decoded
\* upstream record, in the same order: item i is the mapping of record i
\* (its guid is record i's ID, its title record i's title).
C8_ItemsFollowRecords ==
    feedWrites > 0 =>
        LET nodes == httpResponse.nodes
            items == rss.Channel.Item
        IN  /\ Len(items) = Len(nodes)
            /\ \A i \in 1..Len(nodes) :
                  /\ items[i] = JsonToRssItem(nodes[i])
                  /\ items[i].Guid.Content = nodes[i].ID
                  /\ items[i].Title = nodes[i].Title

\* a payload of two different records has been mapped
C8_Witness ==
    /\ feedWrites = 1
    /\ Len(httpResponse.nodes) >= 2
    /\ httpResponse.nodes[1] /= httpResponse.nodes[2]

\* ------------------------------------------------------------------------ C9
\* C9: every item's link is "https://oko.press/" followed by the record's
\* slug and its enclosure URL is the configured prefix followed by the
\* record's image URL, character for character; in particular prefix
\* "https://proxy/" and image "/img.jpg" give "https://proxy//img.jpg".
C9_LinkAndEnclosure ==
    feedWrites > 0 =>
        \A i \in 1..Len(httpResponse.nodes) :
            LET node == httpResponse.nodes[i]
                item == rss.Channel.Item[i]
            IN  /\ item.Link = BaseUrl \o node.SeoFields.Slug
                /\ Len(item.Link) = Len(BaseUrl) + Len(node.SeoFields.Slug)
                /\ item.Enclosure.Url = config.ThumbnailCompression \o node.Image.Url
                /\ Len(item.Enclosure.Url)
                     = Len(config.ThumbnailCompression) + Len(node.Image.Url)
                /\ (config.ThumbnailCompression = ProxyPrefix /\ node = NodeGood) =>
                      /\ item.Enclosure.Url =
                           <<"h", "t", "t", "p", "s", ":", "/", "/", "p", "r", "o", "x", "y",
                             "/", "/", "i", "m", "g", ".", "j", "p", "g">>
                      /\ item.Link =
                           <<"h", "t", "t", "p", "s", ":", "/", "/", "o", "k", "o", ".",
                             "p", "r", "e", "s", "s", "/",
                             "t", "e", "s", "t", "-", "a", "r", "t", "i", "c", "l", "e">>

\* the scenario record mapped under the prefix "https://proxy/"
C9_Witness ==
    /\ feedWrites = 1
    /\ config.ThumbnailCompression = ProxyPrefix
    /\ \E i \in 1..Len(httpResponse.nodes) : httpResponse.nodes[i] = NodeGood

\* ------------------------------------------------------------------------ C3
\* C3 as stated: once the countdown has elapsed, the process termination is
\* with exit status 0, whatever the serving task does.
C3_ElapseExitsZero ==
    (cronPc \in {"elapsed", "exited"} /\ procState = "exited") => exitCode = ExitOk

\* C3 (amended): once the countdown has elapsed the process always
\* terminates, whatever requests are in flight; the only step the countdown
\* task takes from there is the exit with status 0, and the only other way
\* the process can end is the serving task's bind-failure panic (status 2)
\* getting in first.
C3_ElapseTerminates ==
    /\ (cronPc = "sleeping" /\ remaining = 0) ~> (procState = "exited")
    /\ (cronPc = "elapsed") ~> (procState = "exited")
    /\ [][(cronPc = "elapsed" /\ cronPc' /= "elapsed")
            => (procState' = "exited" /\ exitCode' = ExitOk)]_vars
    /\ []((cronPc \in {"elapsed", "exited"} /\ procState = "exited")
            => \/ cronPc = "exited" /\ exitCode = ExitOk
               \/ servePc = "panicked" /\ exitCode = ExitPanic)

\* the countdown ended the process while a request was still in flight
C3_Witness ==
    /\ cronPc = "exited" /\ procState = "exited" /\ exitCode = ExitOk
    /\ inflight /= {} /\ responses /= {}

\* ------------------------------------------------------------------------ C5
\* C5: the upstream request is issued at most once and the global feed is
\* written at most once, only by main before any task starts; in every
\* execution that starts the tasks both have happened exactly once; after
\* the tasks start no step changes the feed, and all responses carry one and
\* the same body.
C5_FeedWrittenOnce ==
    /\ [](/\ fetchCount <= 1 /\ feedWrites <= 1
          /\ TasksStarted => (fetchCount = 1 /\ feedWrites = 1)
          /\ Cardinality(responses) <= 1
          /\ \A resp \in responses : resp.body = Append(feed, "\n"))
    /\ [][feed' /= feed => (mainPc = "okoPressRss" /\ ~TasksStarted)]_vars
    /\ [][TasksStarted => feed' = feed]_vars

\* a whole lifetime: fetched once, built once, served, ended by the countdown
C5_Witness ==
    /\ cronPc = "exited" /\ lastRequest /= NoRequest
    /\ fetchCount = 1 /\ feedWrites = 1

C10_BindFailureAlwaysAborts ==
    mainPc = "wait" =>
        /\ wgCount >= 1
        /\ procState = "exited" =>
              \/ cronPc = "exited" /\ exitCode = ExitOk
              \/ servePc = "panicked" /\ exitCode = ExitPanic
        /\ (servePc \in {"failed", "panicked"} /\ procState = "exited")
              => exitCode = ExitPanic

\* C10 (amended): once both tasks are started main stays blocked in wg.Wait()
\* (the counter never reaches 0 while the process runs, main never returns);
\* the process ends only by the countdown's exit with status 0 or by the
\* panic after a bind failure with status 2; the panic is the serving task's
\* only step after a bind failure and is enabled whatever the countdown's
\* state, so it never waits for the countdown, but the countdown's exit may
\* end the process first.
C10_OnlyTwoWaysOut ==
    /\ [](mainPc = "wait" =>
            /\ wgCount >= 1
            /\ procState = "exited" =>
                  \/ cronPc = "exited" /\ exitCode = ExitOk /\ servePc /= "panicked"
                  \/ servePc = "panicked" /\ exitCode = ExitPanic /\ cronPc /= "exited")
    /\ [](mainPc = "returned" => configPath = NO_CONFIG)
    /\ [][(servePc = "failed" /\ servePc' /= "failed")
            => (procState' = "exited" /\ exitCode' = ExitPanic)]_vars
    /\ []((Running /\ servePc = "failed") => ENABLED ServePanic)

\* the bind failure ended the process while the countdown still had time left
C10_Witness ==
    /\ servePc = "panicked" /\ exitCode = ExitPanic
    /\ cronPc = "sleeping" /\ remaining > 0
====
